---- MODULE Spec2Model ----
(***************************************************************************)
(* Model of the learn-node HTTP microservice: the request listener built   *)
(* by createApp (main.ts, and its JavaScript predecessor main.js), the     *)
(* response helpers, the route table and the optional prom-client          *)
(* instrumentation set up at module load.                                  *)
(*                                                                         *)
(* A request is handled in scheduler turns.  The listener runs             *)
(* synchronously up to its first suspension: the await on                  *)
(* promRegistry.metrics() or the registration of the /echo body            *)
(* listeners.  Every other path completes inside the turn that delivered   *)
(* the request.                                                            *)
(***************************************************************************)
EXTENDS Integers, Sequences, FiniteSets, TLC

VARIABLES
    variant,              \* which server file is running: "ts" or "js"
    NODE_ENV,             \* process.env.NODE_ENV || 'development'
    promClient,           \* TRUE iff the module-level handle is non-null
    promRegistry,
    httpRequestsCounter,
    httpRequestDuration,
    counter,              \* hash map of http_requests_total: label -> value
    histogram,            \* http_request_duration_seconds: label -> count
    reqs,                 \* the requests delivered so far, in arrival order
    proc                  \* the Node process: its state and how it ended

vars == <<variant, NODE_ENV, promClient, promRegistry, httpRequestsCounter,
          httpRequestDuration, counter, histogram, reqs, proc>>

metricsVars == <<promClient, promRegistry, httpRequestsCounter,
                 httpRequestDuration>>

\* Number of requests delivered to the listener in one behaviour.
MaxReq == 2

-----------------------------------------------------------------------------
(* JavaScript values *)

\* A property value that may be undefined.
Val(v) == [def |-> TRUE, v |-> v]
Undefined == [def |-> FALSE, v |-> "undefined"]
Null == <<"<null>">>

\* JSON.stringify of an object literal: a property whose value is undefined
\* is left out, null is kept.
JSONstringify(o) == [k \in {f \in DOMAIN o : o[f].def} |-> o[k].v]

\* new Date().toISOString()
ISOString == "iso-8601"

-----------------------------------------------------------------------------
(* Request inputs *)

Methods == {"GET", "POST", "OPTIONS", "DELETE"}

\* Request targets, as token sequences ("/ping?x=1" is <<"/","ping","?","x=1">>).
Urls == { <<"/">>, <<"/", "ping">>, <<"/", "healthz">>, <<"/", "info">>,
          <<"/", "version">>, <<"/", "echo">>, <<"/", "metrics">>,
          <<"/", "unknown">>, <<"/", "ping", "?", "x=1">>,
          <<"/", "ping", "/">>, <<"/", ".", "/", "ping">>, <<"/", "/">> }

RECURSIVE UpTo(_, _)
\* Longest prefix of s holding no token of stop.
UpTo(s, stop) ==
    IF s = <<>> \/ Head(s) \in stop THEN <<>>
    ELSE <<Head(s)>> \o UpTo(Tail(s), stop)

\* new URL(req.url, `http://${req.headers.host}`): a target that starts with
\* "//" names an authority; with nothing after it the host is empty and the
\* constructor throws TypeError "Invalid URL".  Otherwise .pathname is the
\* target up to the query or fragment, with its dot segments resolved.
URLthrows(url) == Len(url) = 2 /\ url[1] = "/" /\ url[2] = "/"

RECURSIVE Segments(_)
\* The segments of a path: what follows each "/" ("" when nothing does).
Segments(path) ==
    IF path = <<>> THEN <<>>
    ELSE IF Len(path) = 1 \/ path[2] = "/"
         THEN <<"">> \o Segments(Tail(path))
         ELSE <<path[2]>> \o Segments(Tail(Tail(path)))

RECURSIVE Resolve(_, _)
\* The URL parser's path state: a "." segment is dropped, a ".." segment
\* removes the segment before it; either leaves an empty segment when it is
\* the last one.
Resolve(segs, out) ==
    IF segs = <<>> THEN out
    ELSE LET seg == Head(segs)
             last == Len(segs) = 1
         IN IF seg = "."
            THEN Resolve(Tail(segs), IF last THEN Append(out, "") ELSE out)
            ELSE IF seg = ".."
            THEN LET popped == IF out = <<>> THEN out
                               ELSE SubSeq(out, 1, Len(out) - 1)
                 IN Resolve(Tail(segs), IF last THEN Append(popped, "") ELSE popped)
            ELSE Resolve(Tail(segs), Append(out, seg))

RECURSIVE Joined(_)
Joined(segs) ==
    IF segs = <<>> THEN <<>>
    ELSE (IF Head(segs) = "" THEN <<"/">> ELSE <<"/", Head(segs)>>) \o Joined(Tail(segs))

\* A pathname that keeps the query string.
Pathname_withQuery(url) == Joined(Resolve(Segments(url), <<>>))

Pathname(url) == Joined(Resolve(Segments(UpTo(url, {"?", "#"})), <<>>))

InvalidURL == [isError |-> TRUE, message |-> "Invalid URL"]
NullDeref == [isError |-> TRUE,
              message |-> "Cannot read properties of null (reading 'register')"]
CollectFailed == [isError |-> TRUE, message |-> "metrics collection failed"]
\* process.memoryUsage() throws when the resident set size cannot be read.
MemoryUsageFailed == [isError |-> TRUE, message |-> "uv_resident_set_memory"]

-----------------------------------------------------------------------------
(* Request bodies: byte sequences, decoded chunk by chunk *)

\* Bytes used: 34 is the quote, 49 the digit 1, 120 the letter x, and
\* 195 169 is the two-byte UTF-8 encoding of U+00E9.
Bodies == { <<>>, <<49>>, <<120>>, <<34, 195, 169, 34>> }

IsLead2(b) == b >= 194 /\ b <= 223
IsCont(b) == b >= 128 /\ b <= 191

RECURSIVE toString(_)
\* Buffer.prototype.toString('utf8') on bytes below 0xE0: a two-byte lead
\* followed by a continuation byte is one character; a lead without its
\* continuation, or a stray continuation byte, decodes to U+FFFD.
toString(chunk) ==
    IF chunk = <<>> THEN <<>>
    ELSE IF Head(chunk) < 128 THEN <<Head(chunk)>> \o toString(Tail(chunk))
    ELSE IF IsLead2(Head(chunk)) /\ Len(chunk) >= 2 /\ IsCont(chunk[2])
         THEN <<(Head(chunk) - 192) * 64 + (chunk[2] - 128)>>
              \o toString(Tail(Tail(chunk)))
    ELSE <<65533>> \o toString(Tail(chunk))

RECURSIVE DigitsValue(_)
DigitsValue(s) ==
    IF s = <<>> THEN 0
    ELSE 10 * DigitsValue(SubSeq(s, 1, Len(s) - 1)) + (s[Len(s)] - 48)

\* JSON.parse on texts over the characters of Bodies: a text is a number
\* (a run of digits 1) or a string (quote, characters other than a quote,
\* quote); anything else, the empty text included, throws SyntaxError.
JSONparse(text) ==
    IF text # <<>> /\ \A i \in 1..Len(text) : text[i] = 49
    THEN [ok |-> TRUE, t |-> "number", n |-> DigitsValue(text), s |-> <<>>]
    ELSE IF /\ Len(text) >= 2
            /\ text[1] = 34
            /\ text[Len(text)] = 34
            /\ \A i \in 2..(Len(text) - 1) : text[i] # 34
    THEN [ok |-> TRUE, t |-> "string", n |-> 0,
          s |-> SubSeq(text, 2, Len(text) - 1)]
    ELSE [ok |-> FALSE, t |-> "SyntaxError", n |-> 0, s |-> <<>>]

-----------------------------------------------------------------------------
(* The response object *)

NoBody == [kind |-> "none"]

\* A fresh ServerResponse: statusCode defaults to 200, nothing written.
NewResponse == [statusCode |-> 200,
                headers |-> [h \in {} |-> ""],
                ended |-> 0,
                body |-> NoBody]

setHeader(res, name, value) ==
    [res EXCEPT !.headers = (name :> value) @@ @]

\* writeHead that discards the headers set earlier with setHeader.
writeHead_replacing(res, status, hdrs) ==
    [res EXCEPT !.statusCode = status, !.headers = hdrs]

\* res.writeHead(status, headers): the given headers are merged over the
\* ones set with setHeader.
writeHead(res, status, hdrs) ==
    [res EXCEPT !.statusCode = status, !.headers = hdrs @@ @]

\* res.end(body): the first call finishes the response.
end(res, body) ==
    [res EXCEPT !.ended = @ + 1,
                !.body = IF res.ended = 0 THEN body ELSE @]

sendSuccess(res, data, statusCode) ==
    end(setHeader([res EXCEPT !.statusCode = statusCode],
                  "Content-Type", "application/json"),
        [kind |-> "json",
         json |-> JSONstringify([success |-> Val(TRUE),
                                 data |-> data,
                                 timestamp |-> Val(ISOString)])])

\* The error body of the older handlers: {error, message, statusCode}.
sendError_legacyBody(res, statusCode, message, details) ==
    end(setHeader([res EXCEPT !.statusCode = statusCode],
                  "Content-Type", "application/json"),
        [kind |-> "json",
         json |-> JSONstringify([error |-> Val(TRUE),
                                 message |-> Val(message),
                                 statusCode |-> Val(statusCode)])])

\* details = null is the default of the parameter: it replaces undefined.
sendError(res, statusCode, message, details) ==
    end(setHeader([res EXCEPT !.statusCode = statusCode],
                  "Content-Type", "application/json"),
        [kind |-> "json",
         json |-> JSONstringify(
                    [success |-> Val(FALSE),
                     message |-> Val(message),
                     details |-> IF details.def THEN details ELSE Val(Null),
                     timestamp |-> Val(ISOString)])])

applyMiddleware(res) ==
    setHeader(setHeader(setHeader(res,
        "X-Content-Type-Options", "nosniff"),
        "X-Frame-Options", "DENY"),
        "X-XSS-Protection", "1; mode=block")

SecurityHeaders ==
    [h \in {"X-Content-Type-Options", "X-Frame-Options", "X-XSS-Protection"} |->
        CASE h = "X-Content-Type-Options" -> "nosniff"
          [] h = "X-Frame-Options" -> "DENY"
          [] OTHER -> "1; mode=block"]

-----------------------------------------------------------------------------
(* Module-level state *)

\* The steps of the prom-client set-up, in program order; "none" is the
\* outcome in which no step throws.
InitSteps == <<"import", "Registry", "collectDefaultMetrics", "Counter",
               "Histogram", "registerCounter", "registerHistogram">>

StepIndex(step) == CHOOSE i \in 1..Len(InitSteps) : InitSteps[i] = step

\* The handles left behind when the set-up throws at failAt: every
\* assignment before the throwing step has happened, and the catch block
\* resets promClient only.
LoadMetrics(failAt) ==
    LET reached(step) == failAt = "none" \/ StepIndex(step) < StepIndex(failAt)
    IN [promClient |-> failAt = "none",
        promRegistry |-> reached("Registry"),
        httpRequestsCounter |-> reached("Counter"),
        httpRequestDuration |-> reached("Histogram")]

appInfo == [version |-> "0.0.1",
            environment |-> NODE_ENV,
            timestamp |-> ISOString]

-----------------------------------------------------------------------------
(* Route table and handlers *)

\* The list of main.ts copied into main.js unchanged.
endpoints_drifted(v) ==
    { << <<"/">>, "GET" >>, << <<"/", "ping">>, "GET" >>,
      << <<"/", "healthz">>, "GET" >>, << <<"/", "info">>, "GET" >>,
      << <<"/", "version">>, "GET" >>, << <<"/", "echo">>, "POST" >>,
      << <<"/", "metrics">>, "GET" >> }

\* The endpoint list of the welcome handler, as (path, method) pairs.
endpoints(v) ==
    { << <<"/">>, "GET" >>, << <<"/", "ping">>, "GET" >>,
      << <<"/", "healthz">>, "GET" >>, << <<"/", "info">>, "GET" >>,
      << <<"/", "metrics">>, "GET" >> }
    \cup (IF v = "ts"
          THEN { << <<"/", "version">>, "GET" >>, << <<"/", "echo">>, "POST" >> }
          ELSE {})

\* A route table of main.ts that lost the /healthz key of main.js.
routes_withoutHealthz(v) ==
    IF v = "ts"
    THEN { <<"/">>, <<"/", "ping">>, <<"/", "info">>, <<"/", "version">> }
    ELSE { <<"/">>, <<"/", "ping">>, <<"/", "healthz">>, <<"/", "info">> }

\* The keys of the routes object.
routes(v) ==
    { <<"/">>, <<"/", "ping">>, <<"/", "healthz">>, <<"/", "info">> }
    \cup (IF v = "ts" THEN { <<"/", "version">> } ELSE {})

MetricsPath == <<"/", "metrics">>
EchoPath == <<"/", "echo">>

welcomeData(v) ==
    [message |-> "Hello World! Welcome to the Learn Node.js Microservice",
     application |-> appInfo,
     endpoints |-> endpoints(v)]

healthData ==
    [status |-> "healthy", uptime |-> "process.uptime()",
     timestamp |-> ISOString, memory |-> "process.memoryUsage()",
     version |-> appInfo.version, environment |-> appInfo.environment]

systemInfo ==
    [application |-> appInfo,
     system |-> [platform |-> "process.platform", arch |-> "process.arch",
                 nodeVersion |-> "process.version",
                 uptime |-> "process.uptime()",
                 memory |-> "process.memoryUsage()",
                 cpuUsage |-> "process.cpuUsage()"],
     environment |-> [nodeEnv |-> "process.env.NODE_ENV", port |-> 3000,
                      hostname |-> "0.0.0.0"]]

versionData ==
    [version |-> appInfo.version, name |-> "learn-node",
     environment |-> appInfo.environment]

pingHandler(res) ==
    end([setHeader(res, "Content-Type", "text/plain") EXCEPT !.statusCode = 200],
        [kind |-> "text", text |-> "pong"])

\* routes[pathname](req, res)
runHandler(v, pathname, res) ==
    CASE pathname = <<"/">> -> sendSuccess(res, Val(welcomeData(v)), 200)
      [] pathname = <<"/", "ping">> -> pingHandler(res)
      [] pathname = <<"/", "healthz">> -> sendSuccess(res, Val(healthData), 200)
      [] pathname = <<"/", "info">> -> sendSuccess(res, Val(systemInfo), 200)
      [] pathname = <<"/", "version">> -> sendSuccess(res, Val(versionData), 200)

-----------------------------------------------------------------------------
(* Logging and metrics recording; ctx carries the request and the metric   *)
(* maps through one scheduler turn.                                        *)

Label(method, route, status) == <<method, route, status>>

\* A counter that stores the increment instead of adding it.
Bump_overwriting(map, label) == (label :> 1) @@ [l \in DOMAIN map |-> 0]

\* prom-client keeps one value per label set and adds to it in place.
Bump(map, label) ==
    IF label \in DOMAIN map THEN [map EXCEPT ![label] = @ + 1]
    ELSE (label :> 1) @@ map

logRequest(ctx, status) == [ctx EXCEPT !.r.log = Append(@, status)]

\* if (httpRequestsCounter) httpRequestsCounter.inc(labels)
inc(ctx, label) ==
    IF httpRequestsCounter
    THEN [ctx EXCEPT !.counter = Bump(@, label), !.r.inc = Append(@, label)]
    ELSE ctx

\* if (httpRequestDuration) httpRequestDuration.observe(labels, seconds)
observe(ctx, label) ==
    IF httpRequestDuration
    THEN [ctx EXCEPT !.histogram = Bump(@, label), !.r.obs = Append(@, label)]
    ELSE ctx

finish(ctx) == [ctx EXCEPT !.r.pc = "done"]

-----------------------------------------------------------------------------
(* The branches of the request listener *)

\* A preflight that is logged and counted like a routed request.
optionsPreflight_recorded(ctx) ==
    LET label == Label(ctx.r.method, ctx.r.url, 204)
        written == [ctx EXCEPT !.r.res = end([@ EXCEPT !.statusCode = 204], NoBody)]
    IN finish(observe(inc(logRequest(written, 204), label), label))

optionsPreflight(ctx) ==
    finish([ctx EXCEPT !.r.res = end([@ EXCEPT !.statusCode = 204], NoBody)])

\* The registry looked at only after a suspension.
metricsDisabled_awaited(ctx) ==
    [ctx EXCEPT !.r.pc = "await_metrics", !.r.snapshot = ctx.counter]

\* if (!promRegistry) { res.writeHead(204); res.end(); return; }
metricsDisabled(ctx) ==
    finish([ctx EXCEPT !.r.res = end(writeHead(@, 204, [h \in {} |-> ""]), NoBody)])

\* The continuation with the counter incremented before the registry is
\* serialized: the response reports the request that produced it.
metricsEnabled_countedFirst(ctx) ==
    LET r == ctx.r
        label == Label(r.method, r.pathname, 200)
        written == [ctx EXCEPT !.r.res =
                      end(writeHead(@, 200,
                                    "Content-Type" :> "text/plain; version=0.0.4; charset=utf-8"),
                          [kind |-> "metrics", samples |-> Bump(r.snapshot, label)])]
    IN finish(observe(inc(logRequest(written, 200), label), label))

\* The continuation after await promRegistry.metrics() resolved with body.
metricsEnabled(ctx) ==
    LET r == ctx.r
        label == Label(r.method, r.pathname, 200)
        written == [ctx EXCEPT !.r.res =
                      end(writeHead(@, 200,
                                    "Content-Type" :> "text/plain; version=0.0.4; charset=utf-8"),
                          [kind |-> "metrics", samples |-> r.snapshot])]
    IN finish(observe(inc(logRequest(written, 200), label), label))

\* main.ts: error instanceof Error ? error.message : String(error)
\* main.js: error && error.message
errorDetails(v, error) ==
    IF v = "ts"
    THEN Val(<<error.message>>)
    ELSE IF error.isError THEN Val(<<error.message>>) ELSE Undefined

\* The 500 sent without the exception's message.
catchError_noDetails(ctx, error) ==
    LET logged == [ctx EXCEPT !.r.errors = Append(@, error.message)]
    IN IF logged.r.res.ended > 0
       THEN [logged EXCEPT !.r.res.statusCode = 500, !.r.pc = "rejected"]
       ELSE finish(logRequest(
                [logged EXCEPT !.r.res = sendError(@, 500, "Internal Server Error",
                                                   Val(Null))],
                500))

\* The catch block of the listener.  sendError assigns statusCode and then
\* calls setHeader, which throws once the response was ended: the exception
\* leaves the async listener and its promise is rejected with no handler.
catchError(ctx, error) ==
    LET logged == [ctx EXCEPT !.r.errors = Append(@, error.message)]
    IN IF logged.r.res.ended > 0
       THEN [logged EXCEPT !.r.res.statusCode = 500, !.r.pc = "rejected"]
       ELSE finish(logRequest(
                [logged EXCEPT !.r.res = sendError(@, 500, "Internal Server Error",
                                                   errorDetails(variant, error))],
                500))

\* The handlers that read process.memoryUsage().
MemoryPaths == { <<"/", "healthz">>, <<"/", "info">> }

\* The routed branch calling the counter without looking whether it exists:
\* with no counter the call throws after the handler wrote the response.
routed_unguardedInc(ctx) ==
    LET r == ctx.r
        handled == [ctx EXCEPT !.r.res = runHandler(variant, r.pathname, @)]
        status == handled.r.res.statusCode
        label == Label(r.method, r.pathname, status)
    IN IF r.fault = "memoryUsage" /\ r.pathname \in MemoryPaths
       THEN catchError(ctx, MemoryUsageFailed)
       ELSE IF ~httpRequestsCounter
       THEN catchError(logRequest(handled, status), NullDeref)
       ELSE finish(observe(inc(logRequest(handled, status), label), label))

\* The handler builds its data before it writes: a throw of
\* process.memoryUsage() leaves the response untouched.
routed(ctx) ==
    LET r == ctx.r
        handled == [ctx EXCEPT !.r.res = runHandler(variant, r.pathname, @)]
        status == handled.r.res.statusCode
        label == Label(r.method, r.pathname, status)
    IN IF r.fault = "memoryUsage" /\ r.pathname \in MemoryPaths
       THEN catchError(ctx, MemoryUsageFailed)
       ELSE finish(observe(inc(logRequest(handled, status), label), label))

\* The parse failure reported with the two texts exchanged.
echoInvalid_swapped(ctx) ==
    finish(logRequest(
        [ctx EXCEPT !.r.res = sendError(@, 400, "Invalid JSON in request body",
                                        Val(<<"Bad Request">>))],
        400))

\* The catch block logging the status of the success path.
echoInvalid_loggedAs200(ctx) ==
    IF ctx.r.res.ended > 0
    THEN [ctx EXCEPT !.r.res.statusCode = 400, !.r.pc = "uncaught"]
    ELSE finish(logRequest(
             [ctx EXCEPT !.r.res = sendError(@, 400, "Bad Request",
                                             Val(<<"Invalid JSON in request body">>))],
             200))

\* The catch block of the 'end' callback.  On a response that was ended the
\* setHeader in sendError throws inside the event callback: an uncaught
\* exception.
echoInvalid(ctx) ==
    IF ctx.r.res.ended > 0
    THEN [ctx EXCEPT !.r.res.statusCode = 400, !.r.pc = "uncaught"]
    ELSE finish(logRequest(
             [ctx EXCEPT !.r.res = sendError(@, 400, "Bad Request",
                                             Val(<<"Invalid JSON in request body">>))],
             400))

\* A serializer that fails only after the response was ended.
echoSuccess_throwAfterWrite(ctx, parsed) ==
    LET r == ctx.r
        echoData == [received |-> parsed, timestamp |-> ISOString,
                     message |-> "Echo successful"]
        label == Label(r.method, r.pathname, 200)
        written == [ctx EXCEPT !.r.res = sendSuccess(@, Val(echoData), 200)]
    IN IF r.fault = "stringify"
       THEN echoInvalid(written)
       ELSE finish(observe(inc(logRequest(written, 200), label), label))

\* sendSuccess sets the status and the content type and then serializes: a
\* JSON.stringify that throws (RangeError) is caught by the callback's catch
\* before anything was written.
echoSuccess(ctx, parsed) ==
    LET r == ctx.r
        echoData == [received |-> parsed, timestamp |-> ISOString,
                     message |-> "Echo successful"]
        label == Label(r.method, r.pathname, 200)
        written == [ctx EXCEPT !.r.res = sendSuccess(@, Val(echoData), 200)]
    IN IF r.fault = "stringify"
       THEN echoInvalid([ctx EXCEPT !.r.res =
                           setHeader([@ EXCEPT !.statusCode = 200],
                                     "Content-Type", "application/json")])
       ELSE finish(observe(inc(logRequest(written, 200), label), label))

\* The method check left out: the request falls through to the 404.
methodNotAllowed_missing(ctx) ==
    finish(logRequest(
        [ctx EXCEPT !.r.res =
            sendError(@, 404, "Not Found",
                      Val(<<"The endpoint ">> \o ctx.r.pathname
                          \o <<" does not exist">>))],
        404))

methodNotAllowed(ctx) ==
    finish(logRequest(
        [ctx EXCEPT !.r.res =
            sendError(@, 405, "Method Not Allowed",
                      Val(<<"Method ", ctx.r.method,
                            " is not allowed for this endpoint">>))],
        405))

\* The fallback sent without its status argument (sendError defaults to 500).
notFound_defaultStatus(ctx) ==
    finish(logRequest(
        [ctx EXCEPT !.r.res =
            sendError(@, 500, "Not Found",
                      Val(<<"The endpoint ">> \o ctx.r.pathname
                          \o <<" does not exist">>))],
        404))

notFound(ctx) ==
    finish(logRequest(
        [ctx EXCEPT !.r.res =
            sendError(@, 404, "Not Found",
                      Val(<<"The endpoint ">> \o ctx.r.pathname
                          \o <<" does not exist">>))],
        404))

\* The listener with the URL parsed before the method is looked at: an
\* unparsable URL is answered 500 whatever the method.
listener_parseFirst(ctx) ==
    LET r == ctx.r
        c1 == [ctx EXCEPT !.r.res = applyMiddleware(@)]
        c2 == [c1 EXCEPT !.r.pathname = Pathname(r.url)]
        pathname == Pathname(r.url)
    IN IF URLthrows(r.url) THEN catchError(c1, InvalidURL)
       ELSE IF r.method = "OPTIONS" THEN optionsPreflight(c1)
       ELSE IF r.method = "GET" /\ pathname = MetricsPath
            THEN IF ~promRegistry THEN metricsDisabled(c2)
                 ELSE [c2 EXCEPT !.r.pc = "await_metrics",
                                 !.r.snapshot = ctx.counter]
       ELSE IF pathname \in routes(variant) /\ r.method = "GET" THEN routed(c2)
       ELSE IF variant = "ts" /\ r.method = "POST" /\ pathname = EchoPath
            THEN [c2 EXCEPT !.r.pc = "reading"]
       ELSE IF r.method # "GET" THEN methodNotAllowed(c2)
       ELSE notFound(c2)

\* The listener with the path looked up before the method: a path the server
\* does not know is answered 404 whatever the method.
listener_notFoundFirst(ctx) ==
    LET r == ctx.r
        c1 == [ctx EXCEPT !.r.res = applyMiddleware(@)]
        c2 == [c1 EXCEPT !.r.pathname = Pathname(r.url)]
        pathname == Pathname(r.url)
    IN IF r.method = "OPTIONS" THEN optionsPreflight(c1)
       ELSE IF URLthrows(r.url) THEN catchError(c1, InvalidURL)
       ELSE IF r.method = "GET" /\ pathname = MetricsPath
            THEN IF ~promRegistry THEN metricsDisabled(c2)
                 ELSE [c2 EXCEPT !.r.pc = "await_metrics",
                                 !.r.snapshot = ctx.counter]
       ELSE IF pathname \in routes(variant) /\ r.method = "GET" THEN routed(c2)
       ELSE IF variant = "ts" /\ r.method = "POST" /\ pathname = EchoPath
            THEN [c2 EXCEPT !.r.pc = "reading"]
       ELSE IF pathname \notin routes(variant) \cup {MetricsPath, EchoPath}
            THEN notFound(c2)
       ELSE methodNotAllowed(c2)

\* The listener from its first statement to its first suspension.  The
\* registry is serialized from the values it holds when metrics() is called;
\* the values only grow, so a later read would report no less.
listener(ctx) ==
    LET r == ctx.r
        c1 == [ctx EXCEPT !.r.res = applyMiddleware(@)]
        c2 == [c1 EXCEPT !.r.pathname = Pathname(r.url)]
        pathname == Pathname(r.url)
    IN IF r.method = "OPTIONS" THEN optionsPreflight(c1)
       ELSE IF URLthrows(r.url) THEN catchError(c1, InvalidURL)
       ELSE IF r.method = "GET" /\ pathname = MetricsPath
            THEN IF ~promRegistry THEN metricsDisabled(c2)
                 ELSE [c2 EXCEPT !.r.pc = "await_metrics",
                                 !.r.snapshot = ctx.counter]
       ELSE IF pathname \in routes(variant) /\ r.method = "GET" THEN routed(c2)
       ELSE IF variant = "ts" /\ r.method = "POST" /\ pathname = EchoPath
            THEN [c2 EXCEPT !.r.pc = "reading"]
       ELSE IF r.method # "GET" THEN methodNotAllowed(c2)
       ELSE notFound(c2)

-----------------------------------------------------------------------------
(* State machine *)

NoSamples == [l \in {} |-> 0]

\* A body buffer declared once for the module instead of once per request:
\* a new request starts with what the previous one accumulated.
NewRequest_sharedBody(m, u, b, f) ==
    [method |-> m, url |-> u, sent |-> b, pending |-> b,
     body |-> IF Len(reqs) > 0 THEN reqs[Len(reqs)].body ELSE <<>>,
     chunks |-> <<>>, overlapped |-> FALSE, fault |-> f,
     pc |-> "start", pathname |-> <<>>, snapshot |-> NoSamples,
     res |-> NewResponse, log |-> <<>>, errors |-> <<>>,
     inc |-> <<>>, obs |-> <<>>]

\* The request as the listener receives it.  sent is the body on the wire,
\* pending what has not arrived yet, chunks the 'data' events delivered so
\* far, overlapped whether one of them arrived while another request was in
\* the middle of its body, body the listener's own buffer (let body = ''),
\* fault the failure this request meets, if any.
NewRequest(m, u, b, f) ==
    [method |-> m, url |-> u, sent |-> b, pending |-> b, body |-> <<>>,
     chunks |-> <<>>, overlapped |-> FALSE, fault |-> f,
     pc |-> "start", pathname |-> <<>>, snapshot |-> NoSamples,
     res |-> NewResponse, log |-> <<>>, errors |-> <<>>,
     inc |-> <<>>, obs |-> <<>>]

\* The process while it runs, and after it ended: through a fatal error
\* (Node prints the error and exits with code 1) or through a signal it
\* does not handle (128 + the signal's number).
Process(state) == [state |-> state, exitCode |-> <<>>, cause |-> "none",
                   stderr |-> <<>>]
Fatal(cause) == [state |-> "stopped", exitCode |-> <<1>>, cause |-> cause,
                 stderr |-> <<cause>>]
Killed(sig) == [state |-> "stopped",
                exitCode |-> IF sig = "SIGTERM" THEN <<143>> ELSE <<130>>,
                cause |-> sig, stderr |-> <<>>]

Loaded ==
    /\ variant \in {"ts", "js"}
    /\ \E failAt \in {InitSteps[i] : i \in 1..Len(InitSteps)} \cup {"none"} :
         LET h == LoadMetrics(failAt)
         IN /\ promClient = h.promClient
            /\ promRegistry = h.promRegistry
            /\ httpRequestsCounter = h.httpRequestsCounter
            /\ httpRequestDuration = h.httpRequestDuration
    /\ counter = NoSamples
    /\ histogram = NoSamples
    /\ reqs = <<>>

\* The server after server.listen succeeded.
Init == Loaded /\ proc = Process("listening") /\ NODE_ENV = "development"

Commit(i, out) ==
    /\ reqs' = [j \in 1..(IF i > Len(reqs) THEN i ELSE Len(reqs)) |->
                  IF j = i THEN out.r ELSE reqs[j]]
    /\ counter' = out.counter
    /\ histogram' = out.histogram
    /\ proc' = IF out.r.pc = "rejected" THEN Fatal("unhandledRejection")
               ELSE IF out.r.pc = "uncaught" THEN Fatal("uncaughtException")
               ELSE proc
    /\ UNCHANGED <<variant, NODE_ENV, metricsVars>>

Ctx(r) == [r |-> r, counter |-> counter, histogram |-> histogram]

\* A request reaches the server: the 'request' event runs the listener.
\* Only POST /echo reads its body, so only it is given one.
Request ==
    /\ proc.state = "listening"
    /\ Len(reqs) < MaxReq
    /\ \E m \in Methods, u \in Urls :
         \E b \in (IF m = "POST" /\ Pathname(u) = EchoPath THEN Bodies ELSE {<<>>}) :
            Commit(Len(reqs) + 1, listener(Ctx(NewRequest(m, u, b, "none"))))

\* await promRegistry.metrics() settles and the listener resumes.
MetricsSettled ==
    \E i \in 1..Len(reqs) :
      /\ proc.state = "listening"
      /\ reqs[i].pc = "await_metrics"
      /\ \E resolved \in BOOLEAN :
           Commit(i, IF ~resolved THEN catchError(Ctx(reqs[i]), CollectFailed)
                     ELSE IF ~promClient THEN catchError(Ctx(reqs[i]), NullDeref)
                     ELSE metricsEnabled(Ctx(reqs[i])))

\* req.on('data'): the next chunk of the body, of any size.  The callback
\* runs outside every try block: when the buffer outgrows the longest string
\* the engine allows, body += throws a RangeError that nothing catches.
EchoData ==
    \E i \in 1..Len(reqs) :
      /\ proc.state = "listening"
      /\ reqs[i].pc = "reading"
      /\ \E k \in 1..Len(reqs[i].pending) :
           LET chunk == SubSeq(reqs[i].pending, 1, k)
               rest == SubSeq(reqs[i].pending, k + 1, Len(reqs[i].pending))
               arrived == [Ctx(reqs[i]) EXCEPT
                             !.r.chunks = Append(@, chunk),
                             !.r.overlapped =
                                 @ \/ \E j \in 1..Len(reqs) :
                                        /\ j # i
                                        /\ reqs[j].pc = "reading"
                                        /\ reqs[j].chunks # <<>>,
                             !.r.pending = rest]
           IN Commit(i, IF reqs[i].fault = "stringLength" /\ rest = <<>>
                        THEN [arrived EXCEPT !.r.pc = "uncaught"]
                        ELSE [arrived EXCEPT !.r.body = @ \o toString(chunk)])

\* An 'end' event delivered before the last chunk.
EchoEnd_early ==
    \E i \in 1..Len(reqs) :
      /\ proc.state = "listening"
      /\ reqs[i].pc = "reading"
      /\ LET parsed == JSONparse(reqs[i].body)
         IN Commit(i, IF parsed.ok THEN echoSuccess(Ctx(reqs[i]), parsed)
                      ELSE echoInvalid(Ctx(reqs[i])))

\* req.on('end')
EchoEnd ==
    \E i \in 1..Len(reqs) :
      /\ proc.state = "listening"
      /\ reqs[i].pc = "reading"
      /\ reqs[i].pending = <<>>
      /\ LET parsed == JSONparse(reqs[i].body)
         IN Commit(i, IF parsed.ok THEN echoSuccess(Ctx(reqs[i]), parsed)
                      ELSE echoInvalid(Ctx(reqs[i])))

Next == Request \/ MetricsSettled \/ EchoData \/ EchoEnd

Spec == Init /\ [][Next]_vars

-----------------------------------------------------------------------------
(* A second specification for the metrics claims: GET requests to /ping,   *)
(* /metrics and an unknown path only, so that longer request sequences     *)
(* stay small.                                                             *)

\* Number of requests delivered in one behaviour of SpecMetrics.
MaxMetricsReq == 4

MetricsUrls == { <<"/", "ping">>, <<"/", "ping", "?", "x=1">>,
                 <<"/", "metrics">>, <<"/", "unknown">> }

RequestGet ==
    /\ proc.state = "listening"
    /\ Len(reqs) < MaxMetricsReq
    /\ \E u \in MetricsUrls :
         Commit(Len(reqs) + 1, listener(Ctx(NewRequest("GET", u, <<>>, "none"))))

NextMetrics == RequestGet \/ MetricsSettled

SpecMetrics == Init /\ [][NextMetrics]_vars

\* A client that sends its GET requests one after the other: the next
\* request is sent when every earlier one has been answered.
RequestSequential ==
    /\ \A j \in 1..Len(reqs) : reqs[j].pc = "done"
    /\ RequestGet

NextSequential == RequestSequential \/ MetricsSettled

SpecSequential == Init /\ [][NextSequential]_vars

-----------------------------------------------------------------------------
(* A third specification: the requests of Spec, and requests during whose  *)
(* handling a call into the platform throws.                               *)

\* The failures a request can meet: process.memoryUsage() throwing in the
\* handlers that call it, JSON.stringify throwing on a body that parsed
\* (nesting deeper than the serializer's stack), and a body longer than the
\* longest string (the bytes modelled are then its last ones).
Faults(m, u, b) ==
    {"none"}
    \cup (IF m = "GET" /\ ~URLthrows(u) /\ Pathname(u) \in MemoryPaths
          THEN {"memoryUsage"} ELSE {})
    \cup (IF variant = "ts" /\ m = "POST" /\ ~URLthrows(u)
             /\ Pathname(u) = EchoPath /\ JSONparse(b).ok
          THEN {"stringify"} ELSE {})
    \cup (IF variant = "ts" /\ m = "POST" /\ ~URLthrows(u)
             /\ Pathname(u) = EchoPath /\ b # <<>>
          THEN {"stringLength"} ELSE {})

RequestFaulty ==
    /\ proc.state = "listening"
    /\ Len(reqs) < MaxReq
    /\ \E m \in Methods, u \in Urls :
         \E b \in (IF m = "POST" /\ Pathname(u) = EchoPath THEN Bodies ELSE {<<>>}) :
           \E f \in Faults(m, u, b) :
             Commit(Len(reqs) + 1, listener(Ctx(NewRequest(m, u, b, f))))

NextFaults == RequestFaulty \/ MetricsSettled \/ EchoData \/ EchoEnd

SpecFaults == Init /\ [][NextFaults]_vars

\* The event loop runs every callback that is ready: a settled
\* serialization resumes its listener, and a body that eventually ends has
\* its 'data' and 'end' events delivered.
Fairness ==
    /\ WF_vars(MetricsSettled)
    /\ WF_vars(EchoData)
    /\ WF_vars(EchoEnd)

FairSpecFaults == SpecFaults /\ Fairness

-----------------------------------------------------------------------------
(* A specification for the environment the process is started in: the      *)
(* development default or production (the production image sets            *)
(* NODE_ENV=production), with the GET requests that end in a 500 and one   *)
(* that does not.                                                          *)

Environments == {"development", "production"}

InitEnv == Loaded /\ proc = Process("listening") /\ NODE_ENV \in Environments

EnvUrls == { <<"/", "/">>, <<"/", "metrics">>, <<"/", "info">> }

RequestEnv ==
    /\ proc.state = "listening"
    /\ Len(reqs) < MaxReq
    /\ \E u \in EnvUrls :
         Commit(Len(reqs) + 1, listener(Ctx(NewRequest("GET", u, <<>>, "none"))))

NextEnv == RequestEnv \/ MetricsSettled

SpecEnv == InitEnv /\ [][NextEnv]_vars

-----------------------------------------------------------------------------
(* A fourth specification: the process from the start of server.listen to  *)
(* its end.  The file registers no 'error' listener on the server and no   *)
(* signal handler, so both take Node's default course.                     *)

InitLifecycle == Loaded /\ proc = Process("starting") /\ NODE_ENV = "development"

\* server.listen(PORT, HOST, callback): the port is bound.
Listen ==
    /\ proc.state = "starting"
    /\ proc' = Process("listening")
    /\ UNCHANGED <<variant, NODE_ENV, metricsVars, counter, histogram, reqs>>

\* The server emits 'error' (the port is taken, accept fails): with no
\* listener for it the event is thrown as an uncaught exception.
ServerError_survived ==
    /\ proc.state \in {"starting", "listening"}
    /\ proc' = [proc EXCEPT !.cause = "uncaughtException",
                            !.stderr = <<"uncaughtException">>]
    /\ UNCHANGED <<variant, NODE_ENV, metricsVars, counter, histogram, reqs>>

ServerError ==
    /\ proc.state \in {"starting", "listening"}
    /\ proc' = Fatal("uncaughtException")
    /\ UNCHANGED <<variant, NODE_ENV, metricsVars, counter, histogram, reqs>>

\* SIGTERM or SIGINT arrives: no handler is registered, the process ends
\* at once, whatever it was doing.
Signal ==
    /\ proc.state \in {"starting", "listening"}
    /\ \E sig \in {"SIGTERM", "SIGINT"} : proc' = Killed(sig)
    /\ UNCHANGED <<variant, NODE_ENV, metricsVars, counter, histogram, reqs>>

NextLifecycle ==
    Listen \/ ServerError \/ Signal \/ Request \/ MetricsSettled \/ EchoData \/ EchoEnd

SpecLifecycle == InitLifecycle /\ [][NextLifecycle]_vars

-----------------------------------------------------------------------------
(* Properties *)

Done(r) == r.pc = "done"

Parsed(r) == ~URLthrows(r.url)

IsJson(r) == r.res.body.kind = "json"

\* A JSON error envelope with the given status.
IsError(r, status) ==
    /\ r.res.statusCode = status
    /\ r.res.ended = 1
    /\ IsJson(r)
    /\ "success" \in DOMAIN r.res.body.json
    /\ r.res.body.json["success"] = FALSE

\* The paths the server answers: the route table, /metrics, and /echo in
\* main.ts.
RegisteredPaths ==
    routes(variant) \cup {MetricsPath}
    \cup (IF variant = "ts" THEN {EchoPath} ELSE {})

HasSecurityHeaders(res) ==
    \A h \in DOMAIN SecurityHeaders :
        h \in DOMAIN res.headers /\ res.headers[h] = SecurityHeaders[h]

IsEcho(r) == variant = "ts" /\ r.method = "POST" /\ Parsed(r)
             /\ Pathname(r.url) = EchoPath

IsMetricsRead(r) == r.method = "GET" /\ Parsed(r) /\ Pathname(r.url) = MetricsPath

\* C1: a GET request whose pathname is neither a key of the route table nor
\* /metrics is answered 404 with a JSON body whose success field is false and
\* whose details name the pathname, at every position of the request sequence.
C1_UnknownPathIs404 ==
    \A i \in 1..Len(reqs) :
        LET r == reqs[i]
        IN (r.method = "GET" /\ Parsed(r)
            /\ Pathname(r.url) \notin routes(variant) \cup {MetricsPath})
           => /\ Done(r)
              /\ IsError(r, 404)
              /\ r.res.body.json["details"] =
                   <<"The endpoint ">> \o Pathname(r.url) \o <<" does not exist">>

\* A 404 for an unknown path, sent after another request was served.
C1_Witness ==
    /\ Len(reqs) = 2
    /\ reqs[1].res.statusCode = 200 /\ reqs[1].res.ended = 1
    /\ reqs[2].method = "GET" /\ reqs[2].url = <<"/", "unknown">>
    /\ IsError(reqs[2], 404)

\* C2 as stated: on a registered path every method other than GET, except
\* POST on /echo, is answered 405 with success false.
C2_NonGetIs405 ==
    \A i \in 1..Len(reqs) :
        LET r == reqs[i]
        IN (Done(r) /\ Parsed(r) /\ Pathname(r.url) \in RegisteredPaths
            /\ r.method # "GET"
            /\ ~(r.method = "POST" /\ Pathname(r.url) = EchoPath))
           => IsError(r, 405)

\* C2 amended: on a registered path every method other than GET and
\* OPTIONS, except POST on /echo, is answered 405 with success false.
C2_NonGetNonOptionsIs405 ==
    \A i \in 1..Len(reqs) :
        LET r == reqs[i]
        IN (Parsed(r) /\ Pathname(r.url) \in RegisteredPaths
            /\ r.method \notin {"GET", "OPTIONS"}
            /\ ~(r.method = "POST" /\ Pathname(r.url) = EchoPath))
           => /\ Done(r)
              /\ IsError(r, 405)
              /\ r.res.body.json["message"] = "Method Not Allowed"

\* A POST to the welcome route and a DELETE to /metrics, both rejected.
C2_Witness ==
    /\ Len(reqs) = 2
    /\ reqs[1].method = "POST" /\ reqs[1].url = <<"/">> /\ IsError(reqs[1], 405)
    /\ reqs[2].method = "DELETE" /\ reqs[2].url = MetricsPath
    /\ IsError(reqs[2], 405)

\* C3: an OPTIONS request, whatever its target, is finished in the turn that
\* delivered it with status 204 and no body; no handler wrote to it, nothing
\* was logged or recorded for it, and the security headers are on it.
C3_OptionsIs204 ==
    \A i \in 1..Len(reqs) :
        LET r == reqs[i]
        IN r.method = "OPTIONS"
           => /\ Done(r)
              /\ r.res.statusCode = 204
              /\ r.res.ended = 1
              /\ r.res.body = NoBody
              /\ "Content-Type" \notin DOMAIN r.res.headers
              /\ r.log = <<>> /\ r.errors = <<>>
              /\ r.inc = <<>> /\ r.obs = <<>>
              /\ HasSecurityHeaders(r.res)

\* A preflight answered while the counter and the histogram exist, after a
\* routed request was counted.
C3_Witness ==
    /\ httpRequestsCounter /\ httpRequestDuration
    /\ Len(reqs) = 2
    /\ reqs[1].inc # <<>>
    /\ reqs[2].method = "OPTIONS" /\ reqs[2].url = <<"/", "ping">>
    /\ reqs[2].res.statusCode = 204

\* C4: every response that was sent carries the three security headers with
\* their fixed values.
C4_SecurityHeadersOnEveryResponse ==
    \A i \in 1..Len(reqs) :
        reqs[i].res.ended >= 1 => HasSecurityHeaders(reqs[i].res)

\* A 200 from /metrics (written with writeHead) next to a 500.
C4_Witness ==
    /\ Len(reqs) = 2
    /\ IsMetricsRead(reqs[1]) /\ Done(reqs[1]) /\ reqs[1].res.statusCode = 200
    /\ reqs[1].res.body.kind = "metrics"
    /\ reqs[2].res.statusCode = 500 /\ reqs[2].res.ended = 1

SentValue(r) == JSONparse(toString(r.sent))

\* C6: POST /echo with a body that is valid JSON is answered 200 with
\* data.received equal to the value sent and data.message "Echo successful",
\* however the body was split into chunks.
C6_EchoReturnsSentValue ==
    \A i \in 1..Len(reqs) :
        LET r == reqs[i]
        IN (IsEcho(r) /\ Done(r) /\ SentValue(r).ok)
           => /\ r.res.statusCode = 200
              /\ IsJson(r)
              /\ r.res.body.json["success"] = TRUE
              /\ r.res.body.json["data"].message = "Echo successful"
              /\ r.res.body.json["data"].received = SentValue(r)

\* C7 as stated: POST /echo with a body that does not parse is answered with
\* a 400 error envelope whose message is "Invalid JSON in request body".
C7_InvalidJsonMessage ==
    \A i \in 1..Len(reqs) :
        LET r == reqs[i]
        IN (IsEcho(r) /\ Done(r) /\ ~SentValue(r).ok)
           => /\ IsError(r, 400)
              /\ r.res.body.json["message"] = "Invalid JSON in request body"

\* C7 amended: POST /echo with a body that does not parse, the empty body
\* included, is answered with a 400 error envelope whose message is
\* "Bad Request" and whose details are "Invalid JSON in request body"; it is
\* never answered 500 and no error is logged for it.
C7_InvalidJsonIs400 ==
    \A i \in 1..Len(reqs) :
        LET r == reqs[i]
        IN (IsEcho(r) /\ Done(r) /\ ~SentValue(r).ok)
           => /\ IsError(r, 400)
              /\ r.res.body.json["message"] = "Bad Request"
              /\ r.res.body.json["details"] = <<"Invalid JSON in request body">>
              /\ r.errors = <<>>
              /\ r.log = <<400>>

\* An empty body and a body that is no JSON text, both rejected.
C7_Witness ==
    /\ Len(reqs) = 2
    /\ IsEcho(reqs[1]) /\ reqs[1].sent = <<>> /\ IsError(reqs[1], 400)
    /\ IsEcho(reqs[2]) /\ reqs[2].sent = <<120>> /\ IsError(reqs[2], 400)

\* The metrics subsystem is enabled when its set-up ran to the end, and
\* disabled when it failed: the catch block leaves promClient null.
MetricsEnabled == promClient

\* C8: GET /metrics is answered 200 with the serialized registry when the
\* metrics subsystem is enabled (and the serialization settles without
\* error), 204 with an empty body when it is disabled; in disabled mode no
\* counter and no duration observation is ever recorded.
C8_MetricsEndpoint ==
    /\ \A i \in 1..Len(reqs) :
         LET r == reqs[i]
         IN (IsMetricsRead(r) /\ Done(r))
            => /\ (MetricsEnabled /\ r.errors = <<>>)
                    => /\ r.res.statusCode = 200
                       /\ r.res.body = [kind |-> "metrics", samples |-> r.snapshot]
               /\ ~MetricsEnabled
                    => /\ r.res.statusCode = 204
                       /\ r.res.body = NoBody
    /\ ~MetricsEnabled => (counter = NoSamples /\ histogram = NoSamples)

\* C9: with metrics enabled, every completed request other than a preflight
\* has incremented the counter once and recorded one observation, both
\* labelled with its method, its route and the status sent.
C9_EveryRequestRecorded ==
    MetricsEnabled =>
      \A i \in 1..Len(reqs) :
        LET r == reqs[i]
        IN (Done(r) /\ r.method # "OPTIONS")
           => /\ Len(r.inc) = 1
              /\ r.obs = r.inc
              /\ r.inc[1][1] = r.method
              /\ r.inc[1][3] = r.res.statusCode

PingLabel == Label("GET", <<"/", "ping">>, 200)

IsPing(r) == r.method = "GET" /\ Parsed(r) /\ Pathname(r.url) = <<"/", "ping">>

\* The value a serialized registry reports for a label set.
Reported(samples, label) == IF label \in DOMAIN samples THEN samples[label] ELSE 0

\* C10: with metrics enabled, a GET /metrics that arrives after N successful
\* GET /ping requests reports at least N for {GET, /ping, 200}; of two reads
\* the later one reports no smaller value for any label set, and the live
\* counter is never below a value that was reported.
C10_CounterAccumulates ==
    MetricsEnabled =>
      \A j \in 1..Len(reqs) :
        LET r == reqs[j]
            N == Cardinality({i \in 1..(j - 1) :
                    IsPing(reqs[i]) /\ Done(reqs[i])
                    /\ reqs[i].res.statusCode = 200})
        IN (IsMetricsRead(r) /\ Done(r) /\ r.res.statusCode = 200)
           => /\ r.res.body.kind = "metrics"
              /\ Reported(r.res.body.samples, PingLabel) >= N
              /\ \A l \in DOMAIN r.res.body.samples :
                    Reported(counter, l) >= r.res.body.samples[l]
              /\ \A i \in 1..(j - 1) :
                    (IsMetricsRead(reqs[i]) /\ Done(reqs[i])
                     /\ reqs[i].res.statusCode = 200)
                    => \A l \in DOMAIN reqs[i].res.body.samples :
                          Reported(r.res.body.samples, l)
                            >= reqs[i].res.body.samples[l]

\* Two pings, a first read that reports them, and a later read that also
\* reports the first read.
C10_Witness ==
    /\ MetricsEnabled
    /\ Len(reqs) = 4
    /\ IsPing(reqs[1]) /\ IsPing(reqs[2])
    /\ IsMetricsRead(reqs[3]) /\ Done(reqs[3]) /\ reqs[3].res.statusCode = 200
    /\ Reported(reqs[3].res.body.samples, PingLabel) = 2
    /\ IsMetricsRead(reqs[4]) /\ Done(reqs[4]) /\ reqs[4].res.statusCode = 200
    /\ Reported(reqs[4].res.body.samples, PingLabel) = 2
    /\ Reported(reqs[4].res.body.samples, Label("GET", MetricsPath, 200)) = 1


-----------------------------------------------------------------------------
(* Failures inside a request's handling *)

\* The exception the dispatch of r throws before any suspension, if one.
ThrowsAtDispatch(r) ==
    /\ r.method # "OPTIONS"
    /\ \/ URLthrows(r.url)
       \/ /\ r.fault = "memoryUsage"
          /\ r.method = "GET"
          /\ Pathname(r.url) \in MemoryPaths

ThrownMessage(r) ==
    IF URLthrows(r.url) THEN InvalidURL.message ELSE MemoryUsageFailed.message

\* C11: whenever the dispatch of a request throws (URL parsing, the metrics
\* serialization, a route handler), the top-level catch logs the exception
\* once and the request is answered 500 with a JSON error envelope whose
\* details are the exception's message; such an exception never ends the
\* process (a process that stopped was stopped by a callback that threw).
C11_DispatchErrorIs500 ==
    /\ proc.state = "stopped" =>
         \E j \in 1..Len(reqs) : reqs[j].pc = "uncaught" /\ reqs[j].errors = <<>>
    /\ \A i \in 1..Len(reqs) :
         LET r == reqs[i]
         IN /\ ThrowsAtDispatch(r) => r.errors = <<ThrownMessage(r)>>
            /\ r.errors # <<>> =>
                 /\ Done(r)
                 /\ Len(r.errors) = 1
                 /\ IsError(r, 500)
                 /\ r.res.body.json["message"] = "Internal Server Error"
                 /\ r.res.body.json["details"] = <<r.errors[1]>>
                 /\ r.log = <<500>>

\* A handler threw, was answered 500, and the next request was served.
C11_Witness ==
    /\ Len(reqs) = 2
    /\ reqs[1].fault = "memoryUsage"
    /\ IsError(reqs[1], 500)
    /\ reqs[1].res.body.json["details"] = <<MemoryUsageFailed.message>>
    /\ IsPing(reqs[2])
    /\ Done(reqs[2])
    /\ reqs[2].res.statusCode = 200

\* C12: no exception raised while a request is handled leaves the handler:
\* no listener promise is rejected, no callback throws, and the process
\* keeps running.
C12_NoErrorEscapes ==
    /\ proc.state = "listening"
    /\ \A i \in 1..Len(reqs) : reqs[i].pc \notin {"rejected", "uncaught"}

-----------------------------------------------------------------------------
(* The life of the process *)

Signals == {"SIGTERM", "SIGINT"}

FatalCauses == {"uncaughtException", "unhandledRejection"}

\* C13: a termination signal received while listening lets every request
\* that is in flight finish: the process is never found ended by a signal
\* with a request left unanswered.
C13_SignalDrainsInFlight ==
    proc.cause \in Signals => \A i \in 1..Len(reqs) : Done(reqs[i])

\* C14: a process that was sent a termination signal and has no request in
\* flight stops with exit code 0.
C14_DrainedExitIsZero ==
    (/\ proc.state = "stopped"
     /\ proc.cause \in Signals
     /\ \A i \in 1..Len(reqs) : Done(reqs[i]))
    => proc.exitCode = <<0>>

-----------------------------------------------------------------------------
(* The registered GET routes *)

AppInfoFields == {"version", "environment", "timestamp"}

IsSuccess(r) ==
    /\ r.res.statusCode = 200
    /\ r.res.ended = 1
    /\ IsJson(r)
    /\ DOMAIN r.res.body.json = {"success", "data", "timestamp"}
    /\ r.res.body.json["success"] = TRUE

\* The body each route is documented to return.
DocumentedShape(r, pathname) ==
    CASE pathname = <<"/", "ping">> ->
           /\ r.res.statusCode = 200
           /\ r.res.ended = 1
           /\ r.res.body = [kind |-> "text", text |-> "pong"]
           /\ r.res.headers["Content-Type"] = "text/plain"
      [] pathname = <<"/">> ->
           /\ IsSuccess(r)
           /\ DOMAIN r.res.body.json["data"] = {"message", "application", "endpoints"}
           /\ DOMAIN r.res.body.json["data"].application = AppInfoFields
           /\ r.res.body.json["data"].endpoints = endpoints(variant)
      [] pathname = <<"/", "healthz">> ->
           /\ IsSuccess(r)
           /\ DOMAIN r.res.body.json["data"] =
                {"status", "uptime", "timestamp", "memory", "version", "environment"}
           /\ r.res.body.json["data"].status = "healthy"
      [] pathname = <<"/", "info">> ->
           /\ IsSuccess(r)
           /\ DOMAIN r.res.body.json["data"] = {"application", "system", "environment"}
           /\ DOMAIN r.res.body.json["data"].application = AppInfoFields
           /\ DOMAIN r.res.body.json["data"].system =
                {"platform", "arch", "nodeVersion", "uptime", "memory", "cpuUsage"}
           /\ DOMAIN r.res.body.json["data"].environment = {"nodeEnv", "port", "hostname"}
      [] pathname = <<"/", "version">> ->
           /\ IsSuccess(r)
           /\ DOMAIN r.res.body.json["data"] = {"version", "name", "environment"}
      [] OTHER -> FALSE

\* C16: in every reachable state a GET of a route of the route table is
\* answered 200 with the body documented for it, and a GET /metrics whose
\* serialization does not reject is answered 200 when metrics are enabled
\* and 204 when they are disabled.
C16_RegisteredGetRoutes ==
    \A i \in 1..Len(reqs) :
        LET r == reqs[i]
        IN (r.method = "GET" /\ Parsed(r)) =>
             /\ Pathname(r.url) \in routes(variant) =>
                  Done(r) /\ DocumentedShape(r, Pathname(r.url))
             /\ (IsMetricsRead(r) /\ Done(r)
                 /\ r.errors # <<CollectFailed.message>>) =>
                  /\ r.res.ended = 1
                  /\ r.res.statusCode = (IF MetricsEnabled THEN 200 ELSE 204)


-----------------------------------------------------------------------------
(* Requests in flight at the same time *)

RECURSIVE Decoded(_)
\* What a listener that decodes each chunk on arrival has accumulated.
Decoded(chunks) ==
    IF chunks = <<>> THEN <<>>
    ELSE Decoded(SubSeq(chunks, 1, Len(chunks) - 1)) \o toString(chunks[Len(chunks)])

RECURSIVE Flatten(_)
Flatten(chunks) ==
    IF chunks = <<>> THEN <<>>
    ELSE Flatten(SubSeq(chunks, 1, Len(chunks) - 1)) \o chunks[Len(chunks)]

-----------------------------------------------------------------------------
(* What the repository's tests and README expect of the responses *)

CorsHeaders == {"Access-Control-Allow-Origin", "Access-Control-Allow-Methods"}

\* C18: in main.js every response that was sent, the 204 of an OPTIONS
\* request included, carries the headers Access-Control-Allow-Origin and
\* Access-Control-Allow-Methods.
C18_CorsHeadersOnEveryResponse ==
    variant = "js" =>
        \A i \in 1..Len(reqs) :
            reqs[i].res.ended >= 1 => CorsHeaders \subseteq DOMAIN reqs[i].res.headers

\* C19: every 404 and every 405 response has a JSON body whose error field
\* is true and whose statusCode field is the status of the response.
C19_ErrorBodyCarriesStatus ==
    \A i \in 1..Len(reqs) :
        LET r == reqs[i]
        IN (Done(r) /\ r.res.statusCode \in {404, 405}) =>
             /\ IsJson(r)
             /\ {"error", "statusCode"} \subseteq DOMAIN r.res.body.json
             /\ r.res.body.json["error"] = TRUE
             /\ r.res.body.json["statusCode"] = r.res.statusCode

\* C20: the application record in the answer to GET /info and to GET / has
\* a name field equal to learn-node.
C20_ApplicationName ==
    \A i \in 1..Len(reqs) :
        LET r == reqs[i]
        IN (/\ r.method = "GET"
            /\ Parsed(r)
            /\ Pathname(r.url) \in { <<"/">>, <<"/", "info">> }
            /\ Done(r)
            /\ r.res.statusCode = 200) =>
             /\ "name" \in DOMAIN r.res.body.json["data"].application
             /\ r.res.body.json["data"].application.name = "learn-node"


-----------------------------------------------------------------------------
(* The endpoint list and the dispatcher *)

\* The endpoint list a GET / response carries.
Advertised(r) == r.res.body.json["data"].endpoints

IsWelcome(r) ==
    /\ r.method = "GET"
    /\ Parsed(r)
    /\ Pathname(r.url) = <<"/">>
    /\ Done(r)
    /\ r.res.statusCode = 200

-----------------------------------------------------------------------------
(* Spellings of a path *)

\* The target as it was spelled, without its query string.
Spelled(r) == UpTo(r.url, {"?", "#"})

IsPong(r) ==
    /\ r.res.statusCode = 200
    /\ r.res.ended = 1
    /\ r.res.body = [kind |-> "text", text |-> "pong"]
    /\ r.res.headers["Content-Type"] = "text/plain"

\* C22 as stated: a query string never changes the outcome, and a GET whose
\* path is spelled otherwise than a registered path is answered 404.
C22_NoSpellingIsNormalized ==
    \A i \in 1..Len(reqs) :
        LET r == reqs[i]
        IN (r.method = "GET" /\ Parsed(r) /\ Done(r)) =>
             /\ Spelled(r) = <<"/", "ping">> => IsPong(r)
             /\ Spelled(r) \notin RegisteredPaths => IsError(r, 404)

\* C22: a GET is routed on the pathname the URL parser yields: the query
\* string is dropped (GET /ping?x=1 is answered like GET /ping), a trailing
\* slash is kept (GET /ping/ is answered 404), and dot segments are resolved
\* (GET /./ping is answered like GET /ping).
C22_RoutesMatchParsedPathname ==
    \A i \in 1..Len(reqs) :
        LET r == reqs[i]
        IN (r.method = "GET" /\ Parsed(r) /\ Done(r)) =>
             /\ Spelled(r) \in routes(variant) => DocumentedShape(r, Spelled(r))
             /\ Spelled(r) = <<"/", "ping", "/">> =>
                  /\ IsError(r, 404)
                  /\ r.res.body.json["details"] =
                       <<"The endpoint ", "/", "ping", "/", " does not exist">>
             /\ Spelled(r) = <<"/", ".", "/", "ping">> => IsPong(r)

\* The three spellings: with a query string and with a dot segment answered
\* pong, with a trailing slash answered 404.
C22_Witness ==
    /\ Len(reqs) = 2
    /\ reqs[1].url = <<"/", ".", "/", "ping">>
    /\ IsPong(reqs[1])
    /\ reqs[2].url = <<"/", "ping", "/">>
    /\ IsError(reqs[2], 404)


-----------------------------------------------------------------------------
(* What a 500 response reveals *)

\* C23: in a production environment the 500 responses to two requests that
\* failed with different exceptions are identical: the exception's message
\* is not part of them.
C23_ProductionHidesMessage ==
    NODE_ENV = "production" =>
        \A i \in 1..Len(reqs) : \A j \in 1..Len(reqs) :
            (/\ Done(reqs[i]) /\ reqs[i].res.statusCode = 500
             /\ Done(reqs[j]) /\ reqs[j].res.statusCode = 500)
            => reqs[i].res = reqs[j].res


-----------------------------------------------------------------------------
(* main.ts against main.js *)

\* The routes of main.js.
JsRoutes == { <<"/">>, <<"/", "ping">>, <<"/", "healthz">>, <<"/", "info">> }

\* The requests the comparison is about: OPTIONS on any target, GET of an
\* endpoint main.js serves, GET of a path neither file knows.
InJsApi(r) ==
    \/ r.method = "OPTIONS"
    \/ /\ r.method = "GET"
       /\ Parsed(r)
       /\ Pathname(r.url) # <<"/", "version">>

ContentType(r) ==
    IF "Content-Type" \in DOMAIN r.res.headers THEN r.res.headers["Content-Type"] ELSE ""

EnvelopeKind(r) ==
    IF ~IsJson(r) THEN r.res.body.kind
    ELSE IF r.res.body.json["success"] THEN "success" ELSE "error"

ApiOutcome(r) == <<r.res.statusCode, ContentType(r), EnvelopeKind(r)>>

\* What main.js answers, from the request, the metrics handles and whether
\* the handling raised an exception.
JsOutcome(r) ==
    IF r.method = "OPTIONS" THEN <<204, "", "none">>
    ELSE IF Pathname(r.url) = MetricsPath
    THEN IF ~promRegistry THEN <<204, "", "none">>
         ELSE IF r.errors # <<>> THEN <<500, "application/json", "error">>
         ELSE <<200, "text/plain; version=0.0.4; charset=utf-8", "metrics">>
    ELSE IF Pathname(r.url) = <<"/", "ping">> THEN <<200, "text/plain", "text">>
    ELSE IF Pathname(r.url) \in JsRoutes THEN <<200, "application/json", "success">>
    ELSE <<404, "application/json", "error">>

\* C24: for an OPTIONS request, a GET of an endpoint main.js serves and a GET
\* of a path unknown to both files, either file answers with the status
\* code, content type and envelope kind that main.js answers with under the
\* same metrics handles.
C24_SameApiAsMainJs ==
    \A i \in 1..Len(reqs) :
        LET r == reqs[i]
        IN (InJsApi(r) /\ Done(r)) => ApiOutcome(r) = JsOutcome(r)

\* main.ts answered an endpoint of main.js and an unknown path.
C24_Witness ==
    /\ variant = "ts"
    /\ Len(reqs) = 2
    /\ reqs[1].url = <<"/", "healthz">>
    /\ reqs[1].method = "GET"
    /\ ApiOutcome(reqs[1]) = <<200, "application/json", "success">>
    /\ reqs[2].url = <<"/", "unknown">>
    /\ reqs[2].method = "GET"
    /\ ApiOutcome(reqs[2]) = <<404, "application/json", "error">>


-----------------------------------------------------------------------------
(* Logging *)

\* C25: every answered request other than OPTIONS has exactly one log
\* line, which carries the status that was sent.
C25_LoggedExactlyOnce ==
    \A i \in 1..Len(reqs) :
        LET r == reqs[i]
        IN (Done(r) /\ r.method # "OPTIONS") => r.log = <<r.res.statusCode>>


-----------------------------------------------------------------------------
(* Writes of the response *)

\* C26: no response is ended more than once, every request whose handling
\* came to its end has had its response ended exactly once, and no catch
\* block ever attempted an error write on a response that was already ended
\* (the attempt throws and leaves the handler).
C26_WrittenExactlyOnce ==
    \A i \in 1..Len(reqs) :
        LET r == reqs[i]
        IN /\ r.res.ended <= 1
           /\ Done(r) => r.res.ended = 1
           /\ r.pc \in {"reading", "await_metrics"} => r.res.ended = 0
           /\ r.pc \in {"rejected", "uncaught"} => r.res.ended = 0

\* A serialization that failed after a successful parse, answered with the
\* one error write, next to a request answered by the top-level catch.
C26_Witness ==
    /\ Len(reqs) = 2
    /\ reqs[1].fault = "stringify"
    /\ Done(reqs[1])
    /\ reqs[1].res.ended = 1
    /\ reqs[1].res.statusCode = 400
    /\ reqs[2].errors # <<>>
    /\ Done(reqs[2])
    /\ reqs[2].res.ended = 1


-----------------------------------------------------------------------------
(* Order of dispatch and of completion *)

\* The requests whose branch has a suspension point: POST /echo waits for
\* the body, GET /metrics awaits the serialization of an existing registry.
Suspends(r) ==
    /\ r.method # "OPTIONS"
    /\ Parsed(r)
    /\ \/ IsEcho(r)
       \/ IsMetricsRead(r) /\ promRegistry

-----------------------------------------------------------------------------
(* Completion *)

\* C28: every request that was dispatched is eventually answered, given
\* that bodies end and serializations settle.
C28_EveryRequestAnswered ==
    \A i \in 1..MaxReq :
        (Len(reqs) >= i) ~> (Len(reqs) >= i /\ reqs[i].res.ended = 1)


-----------------------------------------------------------------------------
(* The response of /echo *)

\* C29: while a POST /echo is receiving its body nothing of its response
\* was written (no status assigned, nothing ended, no body); once it is
\* answered every chunk of its body has been delivered, and the response was
\* ended once.
C29_EchoWritesAfterBody ==
    \A i \in 1..Len(reqs) :
        LET r == reqs[i]
        IN IsEcho(r) =>
             /\ r.pc = "reading" =>
                  /\ r.res.ended = 0
                  /\ r.res.statusCode = NewResponse.statusCode
                  /\ r.res.body = NoBody
                  /\ r.log = <<>>
             /\ r.res.ended >= 1 =>
                  /\ r.res.ended = 1
                  /\ r.pending = <<>>
                  /\ Flatten(r.chunks) = r.sent

\* A body that came in several chunks, answered after the last of them.
C29_Witness ==
    /\ Len(reqs) >= 1
    /\ IsEcho(reqs[1])
    /\ Len(reqs[1].chunks) >= 2
    /\ Done(reqs[1])
    /\ reqs[1].res.ended = 1


-----------------------------------------------------------------------------
(* The outcome of the metrics set-up *)

\* C30: the set-up ends with all four handles or with none: a registry
\* never exists without the backend handle, the counter and the histogram;
\* and without the backend handle nothing is ever counted or observed and
\* GET /metrics is answered 204 with no body.
C30_InitializationAllOrNothing ==
    /\ promRegistry => (promClient /\ httpRequestsCounter /\ httpRequestDuration)
    /\ ~promClient =>
         /\ ~httpRequestsCounter
         /\ ~httpRequestDuration
         /\ counter = NoSamples
         /\ histogram = NoSamples
         /\ \A i \in 1..Len(reqs) :
              (IsMetricsRead(reqs[i]) /\ reqs[i].pc # "await_metrics") =>
                 /\ Done(reqs[i])
                 /\ reqs[i].res.statusCode = 204
                 /\ reqs[i].res.body = NoBody


-----------------------------------------------------------------------------
(* What a request changes *)

\* C31: no step changes which route table is served, the environment
\* AppInfo was built from, or the metrics handles; the metric values are the
\* only module state a step changes, and with metrics disabled not even
\* those change.
C31_RequestsChangeOnlyTheRegistry ==
    [][/\ UNCHANGED <<variant, NODE_ENV, metricsVars>>
       /\ ~MetricsEnabled => UNCHANGED <<counter, histogram>>]_vars


\* C32: a request whose URL cannot be parsed is answered 204 with no body
\* when its method is OPTIONS, and with a 500 error envelope when its method
\* is anything else.
C32_OptionsBeforeUrlParsing ==
    \A i \in DOMAIN reqs :
        LET r == reqs[i]
        IN Done(r) /\ URLthrows(r.url) =>
            /\ r.method = "OPTIONS" =>
                 /\ r.res.statusCode = 204
                 /\ r.res.body = NoBody
                 /\ r.errors = <<>>
            /\ r.method # "OPTIONS" => IsError(r, 500)

C32_Witness ==
    /\ Len(reqs) = 2
    /\ reqs[1].url = reqs[2].url
    /\ URLthrows(reqs[1].url)
    /\ Done(reqs[1]) /\ reqs[1].method = "OPTIONS" /\ reqs[1].res.statusCode = 204
    /\ Done(reqs[2]) /\ reqs[2].method = "POST" /\ IsError(reqs[2], 500)

\* C33: a request whose method is neither GET nor OPTIONS is answered with
\* a 405 error envelope on every path, registered or not, except POST /echo;
\* a 404 is only ever the answer to a GET.
C33_MethodCheckBeforeNotFound ==
    \A i \in DOMAIN reqs :
        LET r == reqs[i]
        IN Done(r) =>
            /\ (Parsed(r) /\ r.method \notin {"GET", "OPTIONS"} /\ ~IsEcho(r))
                  => IsError(r, 405)
            /\ r.res.statusCode = 404 => r.method = "GET"

C33_Witness ==
    /\ Len(reqs) = 2
    /\ Done(reqs[1]) /\ reqs[1].method = "POST" /\ Parsed(reqs[1])
    /\ Pathname(reqs[1].url) = MetricsPath /\ IsError(reqs[1], 405)
    /\ Done(reqs[2]) /\ reqs[2].method = "POST" /\ Parsed(reqs[2])
    /\ Pathname(reqs[2].url) \notin RegisteredPaths \cup {EchoPath}
    /\ IsError(reqs[2], 405)


MetricsLabel == Label("GET", MetricsPath, 200)

\* The earlier requests that were GET /metrics answered 200.
EarlierReads(i) ==
    {j \in 1..(i - 1) : /\ IsMetricsRead(reqs[j]) /\ Done(reqs[j])
                        /\ reqs[j].res.statusCode = 200}

\* C34: with requests sent one after the other, a GET /metrics answered 200
\* reports for {GET, /metrics, 200} exactly the number of earlier GET /metrics
\* answered 200, never itself; the counter for that label set equals the
\* number of such responses already written.
C34_MetricsReadNotSelfCounted ==
    /\ \A i \in 1..Len(reqs) :
         LET r == reqs[i]
         IN (IsMetricsRead(r) /\ Done(r) /\ r.res.statusCode = 200)
            => /\ r.res.body.kind = "metrics"
               /\ Reported(r.res.body.samples, MetricsLabel)
                    = Cardinality(EarlierReads(i))
    /\ httpRequestsCounter =>
         Reported(counter, MetricsLabel) = Cardinality(EarlierReads(Len(reqs) + 1))

\* Three reads one after the other: the third reports the two before it.
C34_Witness ==
    /\ Len(reqs) = 3
    /\ \A i \in 1..3 : /\ IsMetricsRead(reqs[i]) /\ Done(reqs[i])
                       /\ reqs[i].res.statusCode = 200
                       /\ Reported(reqs[i].res.body.samples, MetricsLabel) = i - 1
    /\ Reported(counter, MetricsLabel) = 3


\* C35: for every label set the counter's value equals the number of
\* durations the histogram observed.  (The counter and the histogram of one
\* request are updated in one step, so no state has a request between the
\* two.)
C35_CounterAndHistogramInLockstep ==
    \A l \in DOMAIN counter \cup DOMAIN histogram :
        Reported(counter, l) = Reported(histogram, l)


\* The status a label set carries.
StatusOf(label) == label[3]

\* C36: a request that was logged was logged once, after its response was
\* ended, with the status that was sent; every label set recorded for it in
\* the counter or the histogram carries that status, and only logged requests
\* are recorded.
C36_LoggedRecordedAndSentStatusAgree ==
    \A i \in 1..Len(reqs) :
        LET r == reqs[i]
        IN /\ r.log # <<>> =>
                /\ Len(r.log) = 1
                /\ r.res.ended = 1
                /\ r.log[1] = r.res.statusCode
           /\ \A k \in 1..Len(r.inc) :
                r.log # <<>> /\ StatusOf(r.inc[k]) = r.res.statusCode
           /\ \A k \in 1..Len(r.obs) :
                r.log # <<>> /\ StatusOf(r.obs[k]) = r.res.statusCode

\* An echo answered 400 and logged as 400, and a ping answered, logged and
\* recorded as 200.
C36_Witness ==
    /\ Len(reqs) = 2
    /\ IsEcho(reqs[1]) /\ Done(reqs[1])
    /\ reqs[1].res.statusCode = 400 /\ reqs[1].log = <<400>>
    /\ IsPing(reqs[2]) /\ Done(reqs[2])
    /\ reqs[2].res.statusCode = 200 /\ reqs[2].log = <<200>>
    /\ reqs[2].inc = <<PingLabel>> /\ reqs[2].obs = <<PingLabel>>


\* What the server answers to a request other than GET /metrics, from the
\* request alone: the status and the kind of body.
OutcomeWithoutMetrics(r) ==
    IF r.method = "OPTIONS" THEN <<204, "none">>
    ELSE IF URLthrows(r.url) THEN <<500, "error">>
    ELSE IF r.method = "GET" /\ Pathname(r.url) = <<"/", "ping">> THEN <<200, "text">>
    ELSE IF r.method = "GET" /\ Pathname(r.url) \in routes(variant)
    THEN <<200, "success">>
    ELSE IF IsEcho(r)
    THEN IF JSONparse(r.body).ok THEN <<200, "success">> ELSE <<400, "error">>
    ELSE IF r.method # "GET" THEN <<405, "error">>
    ELSE <<404, "error">>

\* C37: a request other than GET /metrics is answered, and its status and the
\* kind of its body are what the request alone determines, whatever the
\* metrics handles are.
C37_ResponsesIndependentOfMetrics ==
    \A i \in 1..Len(reqs) :
        LET r == reqs[i]
        IN ~IsMetricsRead(r) =>
             /\ r.pc \in {"done", "reading"}
             /\ r.pc = "reading" => IsEcho(r)
             /\ Done(r) =>
                  <<r.res.statusCode, EnvelopeKind(r)>> = OutcomeWithoutMetrics(r)

\* A server with metrics disabled answering a ping and an echo as a server
\* with metrics does.
C37_Witness ==
    /\ ~promClient /\ ~promRegistry /\ ~httpRequestsCounter
    /\ Len(reqs) = 2
    /\ IsPing(reqs[1]) /\ Done(reqs[1])
    /\ <<reqs[1].res.statusCode, EnvelopeKind(reqs[1])>> = <<200, "text">>
    /\ IsEcho(reqs[2]) /\ Done(reqs[2])
    /\ <<reqs[2].res.statusCode, EnvelopeKind(reqs[2])>> = <<200, "success">>


\* C38: POST /echo is answered 400 when, and only when, its body failed to
\* parse; and no echo request ever has an error written on a response that
\* was already sent.
C38_EchoBadRequestIffParseFailed ==
    \A i \in 1..Len(reqs) :
        LET r == reqs[i]
        IN /\ (IsEcho(r) /\ Done(r)) =>
                (r.res.statusCode = 400 <=> ~JSONparse(r.body).ok)
           /\ IsEcho(r) => ~(r.pc = "uncaught" /\ r.res.ended > 0)

====
